---- MODULE Spec2Model ----
(***************************************************************************)
(* Effort prediction and correction pipeline: the constrained predictor   *)
(* (catboost_model.py, data_processor.py) and the model registry          *)
(* (model_storage.py, an SQLite table plus artifact files).               *)
(*                                                                         *)
(* Effort values are hours, modelled as integers; a missing value (pandas  *)
(* NaN) is the value NaN, which compares false with everything.           *)
(* Tables come from DataProcessor.load_data (read_csv / read_excel), so    *)
(* their index is a RangeIndex: a row's label is its position.            *)
(***************************************************************************)
EXTENDS Integers, Sequences, FiniteSets, TLC

VARIABLES
    \* ---- predictor (CatBoostEffortModel / DataProcessor) ----
    effort_limit,      \* ml_model.effort_limit, the ceiling predict enforces
    is_model_trained,  \* DataProcessor.is_model_trained
    df,                \* the table handed to predict: its effortExpense column
    raws,              \* what self.model.predict returns for the rows predicted
    out,               \* what predict returned: status "none" before the call, "error" if rejected
    ml_model,          \* the other fields of DataProcessor.ml_model (a CatBoostEffortModel)
    artifacts,         \* what joblib.dump wrote to each artifact path
    saved,             \* the in-memory model as it was at the last DataProcessor.save_model
    dp_effort_limit,   \* DataProcessor.effort_limit, the ceiling the object was constructed with
    features,          \* the table handed to prepare_features: a numerical and a categorical column
    prepared,          \* what prepare_features returned: the same columns, filled
    \* ---- registry (ModelStorage) ----
    models,            \* rows of the committed `models` table
    seq,               \* sqlite_sequence of `models` (AUTOINCREMENT high-water mark)
    files,             \* artifact files that exist on disk
    clock,             \* CURRENT_TIMESTAMP, in seconds
    last,              \* the last registry call that returned, with its result
    \* ---- concurrent registry clients (one sqlite3 connection per call) ----
    pc,                \* each client's position inside its current call
    call,              \* each client's current call: arguments, locals, result
    tx,                \* each client's open transaction (uncommitted working copy)
    writer,            \* the client holding SQLite's write (RESERVED) lock, 0 if none
    window,            \* per client: committed states that existed during its read call
    start              \* committed state and files when the current round of calls began

vars == <<effort_limit, is_model_trained, df, raws, out, ml_model, artifacts, saved,
          dp_effort_limit, features, prepared,
          models, seq, files, clock, last,
          pc, call, tx, writer, window, start>>

predVars == <<effort_limit, is_model_trained, df, raws, out, ml_model, artifacts, saved,
              dp_effort_limit, features, prepared>>
regVars  == <<models, seq, files, clock, last>>
concVars == <<pc, call, tx, writer, window, start>>

-----------------------------------------------------------------------------
(* Bounds *)

MaxRows == 3      \* rows of a table
MaxId == 3        \* registry saves (ids handed out by AUTOINCREMENT)
MaxClock == 1     \* seconds the clock may advance
MaxConcSaves == 2 \* saves made by the concurrent clients

-----------------------------------------------------------------------------
(* Values *)

NaN == -9999

\* Config.EFFORT_EXPENSE_LIMIT and a second ceiling a caller may configure
\* (DataProcessor(effort_limit=...)).
EFFORT_EXPENSE_LIMIT == 30

EffortLimits == {EFFORT_EXPENSE_LIMIT, EFFORT_EXPENSE_LIMIT + 10}

\* effortExpense values of a row: missing, normal, at a ceiling, just above, far above.
Targets == {NaN, 12, 30, 33, 45}

\* Raw regressor outputs (finite numbers): below zero, inside, above one or both ceilings.
RawOutputs == {-5, 17, 33, 99}

SeqsUpTo(S, n) == UNION {[1..k -> S] : k \in 0..n}

Min(a, b) == IF a <= b THEN a ELSE b

-----------------------------------------------------------------------------
(* CatBoostEffortModel.predict *)

\* Series.isna()
IsNa(x) == x = NaN

\* The diagnosis script's threshold: five hours above the ceiling.
GtCeilingSlack(x, limit) == x # NaN /\ x > limit + 5

\* `series > self.effort_limit`: false for NaN.
GtCeiling(x, limit) == x # NaN /\ x > limit

\* Only missing targets marked as needing a prediction.
InitRowMissingOnly(t, limit) ==
    [effortExpense |-> t,
     is_missing_effort |-> IsNa(t),
     is_over_limit |-> GtCeiling(t, limit),
     needs_prediction |-> IsNa(t),
     effortExpense_predicted |-> t,
     effortExpense_final |-> t]

\* Lines 248-254: the flags and the two result columns, initialised from the target.
InitRow(t, limit) ==
    [effortExpense |-> t,
     is_missing_effort |-> IsNa(t),
     is_over_limit |-> GtCeiling(t, limit),
     needs_prediction |-> (IsNa(t) \/ GtCeiling(t, limit)),
     effortExpense_predicted |-> t,
     effortExpense_final |-> t]

InitRows(table, limit) == [i \in 1..Len(table) |-> InitRow(table[i], limit)]

\* How many rows of the table need a prediction: the length of prediction_rows.
NumPredicted(table, limit) ==
    Cardinality({i \in 1..Len(table) : InitRow(table[i], limit).needs_prediction})

\* Position of row i in prediction_rows (enumerate(prediction_rows.iterrows())).
RankIn(rows, i) == Cardinality({j \in 1..i : rows[j].needs_prediction})

\* Clipping from above only.
NpClipUpper(x, lo, hi) == Min(x, hi)

\* np.clip(x, lo, hi) == minimum(maximum(x, lo), hi)
NpClip(x, lo, hi) == Min(IF x < lo THEN lo ELSE x, hi)

\* The loop's else-branch gone wrong: the over-limit row takes the model's value.
ApplyOverLimitAsPredicted(r, p, limit) ==
    [r EXCEPT !.effortExpense_predicted = Min(p, limit),
              !.effortExpense_final = Min(p, limit)]

\* Lines 291-294: an over-limit row keeps the prediction for reference, final is the ceiling.
ApplyOverLimit(r, p, limit) ==
    [r EXCEPT !.effortExpense_predicted = Min(p, limit),
              !.effortExpense_final = limit]

\* Lines 286-290: a missing row takes the (capped) prediction in both columns.
ApplyMissing(r, p, limit) ==
    [r EXCEPT !.effortExpense_predicted = Min(p, limit),
              !.effortExpense_final = Min(p, limit)]

\* The loop writing by position (iloc[i]) instead of by label (at[idx]): the k-th
\* prediction lands on the k-th row of the whole table.
ApplyPredictionsByPosition(rows, predictions, limit) ==
    LET src(k) == CHOOSE i \in 1..Len(rows) :
                      rows[i].needs_prediction /\ RankIn(rows, i) = k
    IN [k \in 1..Len(rows) |->
          IF k > Len(predictions) THEN rows[k]
          ELSE LET p == NpClip(predictions[k], 0, limit)
               IN IF rows[src(k)].is_missing_effort
                  THEN ApplyMissing(rows[k], p, limit)
                  ELSE ApplyOverLimit(rows[k], p, limit)]

\* Lines 257-294 (pass 1): clip the raw outputs to [0, ceiling], then write them
\* to the rows of prediction_rows only.
ApplyPredictions(rows, predictions, limit) ==
    [i \in 1..Len(rows) |->
        IF ~rows[i].needs_prediction THEN rows[i]
        ELSE LET p == NpClip(predictions[RankIn(rows, i)], 0, limit)
             IN IF rows[i].is_missing_effort THEN ApplyMissing(rows[i], p, limit)
                ELSE IF rows[i].is_over_limit THEN ApplyOverLimit(rows[i], p, limit)
                ELSE rows[i]]

\* Lines 312-320 (pass 2): predicted rows whose prediction still exceeds the ceiling.
HighPredictions(rows, limit) ==
    {i \in 1..Len(rows) : rows[i].needs_prediction
                          /\ GtCeiling(rows[i].effortExpense_predicted, limit)}

ValidationSweep(rows, limit) ==
    [i \in 1..Len(rows) |->
        IF i \in HighPredictions(rows, limit)
        THEN [rows[i] EXCEPT !.effortExpense_predicted = limit,
                             !.effortExpense_final = limit]
        ELSE rows[i]]

\* Lines 322-328 (pass 3): if any final value exceeds the ceiling, clip the column.
FinalHighValues(rows, limit) ==
    {i \in 1..Len(rows) : GtCeiling(rows[i].effortExpense_final, limit)}

\* Series.clip(upper=limit): NaN stays NaN.
ClipUpper(x, limit) == IF x # NaN /\ x > limit THEN limit ELSE x

FinalSweep(rows, limit) ==
    IF FinalHighValues(rows, limit) = {} THEN rows
    ELSE [i \in 1..Len(rows) |->
            [rows[i] EXCEPT !.effortExpense_final = ClipUpper(@, limit)]]

\* CatBoostEffortModel.predict: the table returned, with what the two sweeps found.
Predict(table, predictions, limit) ==
    LET r0 == InitRows(table, limit)
        r1 == ApplyPredictions(r0, predictions, limit)
        r2 == ValidationSweep(r1, limit)
        r3 == FinalSweep(r2, limit)
    IN [status |-> "ok",
        rows |-> r3,
        high_predictions |-> Cardinality(HighPredictions(r1, limit)),
        final_high_values |-> Cardinality(FinalHighValues(r2, limit))]

\* DataProcessor.predict_effort_expenses: adds the original column.
WithOriginal(res, table) ==
    [res EXCEPT !.rows = [i \in 1..Len(table) |->
        [effortExpense_original |-> table[i]] @@ res.rows[i]]]

-----------------------------------------------------------------------------
(* DataProcessor over CatBoostEffortModel and ModelStorage: training,      *)
(* prediction on tables with a schema, saving and loading                  *)
(*                                                                         *)
(* A table is its set of columns and its effortExpense column. The fitted  *)
(* regressor is an opaque function of the rows it is given; here it is     *)
(* one of a few regressors, each answering one value for every row.        *)

\* Lines 69-72 and 63-66: the columns prepare_features looks for, in its order.
NumericalColumns ==
    <<"effortTimeCosts", "billingRate_hourlyRate",
      "year", "month", "day", "dayofweek", "weekofyear">>

CategoricalColumns ==
    <<"msg_JobTitle", "msg_Community", "taskType", "CountryManagerForProject", "Email">>

\* Lines 54-60: the date parts exist only if the table has an effortDate column.
DateParts == {"year", "month", "day", "dayofweek", "weekofyear"}

\* Uploaded tables: with every column, or without the effort date.
FullColumns ==
    {"effortDate", "effortTimeCosts", "billingRate_hourlyRate",
     "msg_JobTitle", "msg_Community", "taskType", "CountryManagerForProject", "Email"}

TableColumns == {FullColumns, FullColumns \ {"effortDate"}}

PreparedColumns(columns) ==
    columns \cup (IF "effortDate" \in columns THEN DateParts ELSE {})

\* Lines 75-76: the columns of the list that the prepared table has.
FeatureColumns(columns) ==
    LET present(c) == c \in PreparedColumns(columns)
    IN SelectSeq(NumericalColumns \o CategoricalColumns, present)

Range(s) == {s[i] : i \in DOMAIN s}

\* Lines 138-139, 265-266: the feature columns that are not categorical.
NumericalFeatures(m) ==
    LET numeric(c) == c \notin Range(m.categorical_columns)
    IN SelectSeq(m.feature_columns, numeric)

\* CatBoostEffortModel.__init__: no regressor (0 is None), an unfitted scaler.
\* A scaler is known by the columns and by the sample it was last fitted on.
NoRegressor == [id |-> 0, features |-> <<>>]
Unfitted == [fitted |-> FALSE, features |-> <<>>, sample |-> "none"]

NewModel ==
    [model |-> NoRegressor, scaler |-> Unfitted,
     feature_columns |-> <<>>, categorical_columns |-> <<>>,
     is_trained |-> FALSE]

\* prepare_features keeping the columns of earlier tables in the list.
PrepareFeaturesExtend(m, columns) ==
    LET seen(c) == c \in PreparedColumns(columns) \/ c \in Range(m.feature_columns)
    IN [m EXCEPT !.categorical_columns = CategoricalColumns,
                 !.feature_columns = SelectSeq(NumericalColumns \o CategoricalColumns, seen)]

\* Lines 62-76: prepare_features assigns both lists from the table it is given,
\* at training and at every predict.
PrepareFeatures(m, columns) ==
    [m EXCEPT !.categorical_columns = CategoricalColumns,
              !.feature_columns = FeatureColumns(columns)]

\* Lines 102-103: dropna(subset=[target]).
DropNa(targets) ==
    LET valid(t) == ~IsNa(t)
    IN SelectSeq(targets, valid)

\* Line 105: the fewest rows with a target that training accepts.
MinTrainingRows == 10

\* The check written with <= : ten rows are refused too.
TooFewRowsInclusive(targets) == Len(DropNa(targets)) <= MinTrainingRows

\* Lines 105-106.
TooFewRows(targets) == Len(DropNa(targets)) < MinTrainingRows

\* The regressors a fit may produce, and what each answers for a row.
Regressors == {1, 2}

RawOf(id) == IF id = 1 THEN 17 ELSE 33

\* Lines 141-147 and 160-172: the scaler is fitted on the numerical features
\* (if there are any) of the training split X_train, the regressor on all
\* features.
Fit(m, id) ==
    [m EXCEPT !.scaler = IF NumericalFeatures(m) # <<>>
                         THEN [fitted |-> TRUE, features |-> NumericalFeatures(m),
                               sample |-> "X_train"]
                         ELSE @,
              !.model = [id |-> id, features |-> m.feature_columns],
              !.is_trained = TRUE]

\* What the library may do instead of returning a fitted regressor: the
\* hyperparameter search raises (lines 153-155), or the fit raises (lines 167-172).
FitRaises == -1
TuningRaises == -2

\* Line 160: a CatBoostRegressor that has been constructed and never fitted.
UnfittedRegressor == [id |-> FitRaises, features |-> <<>>]

\* Lines 141-147 alone: the model's scaler fitted on the table's training split.
ScalerFitted(m) == [m EXCEPT !.scaler = Fit(m, FitRaises).scaler]

\* CatBoostEffortModel.train_model: the model it leaves and whether it raised.
\* The scaler is fitted before the hyperparameter search, the regressor is
\* replaced after it and before its fit.
TrainResult(m, table, id) ==
    LET m1 == PrepareFeatures(m, table.columns)
    IN IF TooFewRows(table.effortExpense)
       THEN [status |-> "insufficient_data", ml_model |-> m1]
       ELSE IF id = TuningRaises
       THEN [status |-> "fit_failed", ml_model |-> ScalerFitted(m1)]
       ELSE IF id = FitRaises
       THEN [status |-> "fit_failed",
             ml_model |-> [ScalerFitted(m1) EXCEPT !.model = UnfittedRegressor]]
       ELSE [status |-> "ok", ml_model |-> Fit(m1, id)]

\* Lines 262-271: scaler.transform takes the columns the scaler was fitted on.
TransformRaises(m) ==
    /\ NumericalFeatures(m) # <<>>
    /\ (~m.scaler.fitted \/ m.scaler.features # NumericalFeatures(m))

\* Line 276: only a fitted regressor predicts, and it takes the columns it was
\* fitted on.
ModelPredictRaises(m) ==
    m.model.id \notin Regressors \/ m.model.features # m.feature_columns

\* Line 262: prediction_rows[self.feature_columns] needs every listed column in
\* the prepared table.
SelectRaises(m, columns) ==
    ~(Range(m.feature_columns) \subseteq PreparedColumns(columns))

\* Lines 247-330 on the prepared table: only if some row needs a prediction are
\* the features selected, transformed and given to the regressor. The column
\* lists are read from the model as they are when these lines run.
Infer(m, limit, table) ==
    LET n == NumPredicted(table.effortExpense, limit)
        predictions == [i \in 1..n |-> RawOf(m.model.id)]
    IN IF n > 0 /\ (SelectRaises(m, table.columns) \/ TransformRaises(m)
                    \/ ModelPredictRaises(m))
       THEN [status |-> "error", ml_model |-> m, raws |-> <<>>,
             out |-> [status |-> "error"]]
       ELSE [status |-> "ok", ml_model |-> m, raws |-> predictions,
             out |-> WithOriginal(Predict(table.effortExpense, predictions, limit),
                                  table.effortExpense)]

\* CatBoostEffortModel.predict on a table with a schema: prepare_features first
\* (line 245), then the rest on the model it leaves.
PredictResult(m, limit, table) ==
    Infer(PrepareFeatures(m, table.columns), limit, table)

\* The guard switched off.
MustTrainFirstOff(trained) == FALSE

\* Lines 133-134: predict_effort_expenses refuses an untrained DataProcessor.
MustTrainFirst(trained) == ~trained

\* Lines 337-346: the dict that joblib.dump writes.
ModelData(m, limit) ==
    [model |-> m.model, scaler |-> m.scaler,
     feature_columns |-> m.feature_columns,
     categorical_columns |-> m.categorical_columns,
     target_column |-> "effortExpense",
     effort_limit |-> limit,
     is_trained |-> m.is_trained]

\* load_model leaving the ceiling of the object it loads into.
LoadedKeepingLimit(limit, data) ==
    [ml_model |-> [model |-> data.model, scaler |-> data.scaler,
                   feature_columns |-> data.feature_columns,
                   categorical_columns |-> data.categorical_columns,
                   is_trained |-> data.is_trained],
     effort_limit |-> limit]

\* Lines 356-365: load_model assigns every field from the dict, the ceiling included.
Loaded(limit, data) ==
    [ml_model |-> [model |-> data.model, scaler |-> data.scaler,
                   feature_columns |-> data.feature_columns,
                   categorical_columns |-> data.categorical_columns,
                   is_trained |-> data.is_trained],
     effort_limit |-> data.effort_limit]

\* Lines 160-163 and 170: a save without a path names the file after the second it
\* is made in, and every save names the registry entry after it.
NoPath == "None"

TimestampPaths ==
    <<"effort_expense_model_catboost_t0.pkl", "effort_expense_model_catboost_t1.pkl",
      "effort_expense_model_catboost_t2.pkl", "effort_expense_model_catboost_t3.pkl">>

TimestampNames ==
    <<"CatBoost_Model_t0", "CatBoost_Model_t1", "CatBoost_Model_t2", "CatBoost_Model_t3">>

\* The path the application saves to and loads from.
AppPaths == {"effort_expense_model_catboost.pkl"}

WriteFile(fs, path, data) ==
    [p \in DOMAIN fs \cup {path} |-> IF p = path THEN data ELSE fs[p]]

NothingSaved == [file_path |-> NoPath]

-----------------------------------------------------------------------------
(* Predictor specification: any table, any raw model output *)

\* No table has been handed to prepare_features.
NoFeatures == [effortTimeCosts |-> <<>>, taskType |-> <<>>]

PredictorIdle ==
    /\ effort_limit = EFFORT_EXPENSE_LIMIT /\ is_model_trained = FALSE
    /\ dp_effort_limit = EFFORT_EXPENSE_LIMIT
    /\ features = NoFeatures /\ prepared = NoFeatures
    /\ df = <<>> /\ raws = <<>> /\ out = [status |-> "none"]
    /\ ml_model = NewModel /\ artifacts = <<>> /\ saved = NothingSaved

RegistryEmpty ==
    /\ models = {} /\ seq = 0 /\ files = {} /\ clock = 0
    /\ last = [op |-> "none"]

InitPredict ==
    /\ effort_limit \in EffortLimits
    /\ dp_effort_limit = effort_limit
    /\ features = NoFeatures /\ prepared = NoFeatures
    /\ is_model_trained \in BOOLEAN
    /\ df \in SeqsUpTo(Targets, MaxRows)
    /\ raws \in [1..NumPredicted(df, effort_limit) -> RawOutputs]
    /\ out = [status |-> "none"]
    /\ ml_model = NewModel /\ artifacts = <<>> /\ saved = NothingSaved
    /\ RegistryEmpty
    /\ pc = <<>> /\ call = <<>> /\ tx = <<>> /\ writer = 0
    /\ window = <<>> /\ start = <<>>

\* predict_effort_expenses on a trained model.
PredictEffortExpenses ==
    /\ out.status = "none"
    /\ is_model_trained
    /\ out' = WithOriginal(Predict(df, raws, effort_limit), df)
    /\ UNCHANGED <<effort_limit, is_model_trained, df, raws, ml_model, artifacts, saved,
                   dp_effort_limit, features, prepared>>
    /\ UNCHANGED regVars /\ UNCHANGED concVars

\* predict_effort_expenses before any training or loading: ValueError.
PredictRejected ==
    /\ out.status = "none"
    /\ ~is_model_trained
    /\ out' = [status |-> "error"]
    /\ UNCHANGED <<effort_limit, is_model_trained, df, raws, ml_model, artifacts, saved,
                   dp_effort_limit, features, prepared>>
    /\ UNCHANGED regVars /\ UNCHANGED concVars

NextPredict == PredictEffortExpenses \/ PredictRejected

SpecPredict == InitPredict /\ [][NextPredict]_vars

-----------------------------------------------------------------------------
(* ModelStorage: the `models` table and the artifact files *)

\* model_name values (the table's UNIQUE column) and artifact paths callers pass.
\* DataProcessor.save_model names a model after the second it is saved in, and the
\* application saves to one fixed path, so both repeat.
ModelNames == {"CatBoost_Model_a", "CatBoost_Model_b", "CatBoost_Model_c"}
FilePaths == {"model_a.pkl", "model_b.pkl"}

Ids == 1..MaxId

Active(rows) == {r \in rows : r.is_active}

\* Line 70 left out: the existing rows keep their flag.
SqlKeepFlags(rows) == rows

\* Line 70: UPDATE models SET is_active = 0
SqlDeactivateAll(rows) == {[r EXCEPT !.is_active = FALSE] : r \in rows}

\* Lines 73-83: INSERT OR REPLACE. A row with the same (UNIQUE) model_name is
\* deleted first; the new row takes the next AUTOINCREMENT id, is active, and
\* both timestamps default to CURRENT_TIMESTAMP. cursor.lastrowid is the new seq.
SqlInsertOrReplace(rows, sq, name, path, now) ==
    [rows |-> {r \in rows : r.model_name # name}
              \cup {[id |-> sq + 1, model_name |-> name, file_path |-> path,
                     created_at |-> now, updated_at |-> now, is_active |-> TRUE]},
     seq |-> sq + 1]

\* Line 154: SELECT file_path FROM models WHERE id = ?  (fetchone: a row or None)
SqlSelectFilePath(rows, id) == {r.file_path : r \in {x \in rows : x.id = id}}

\* A DELETE that hands the active flag on to the most recently updated row left.
SqlDeleteReassign(rows, id) ==
    LET rest == {r \in rows : r.id # id}
        newest == {r \in rest : \A s \in rest : s.updated_at <= r.updated_at}
    IN IF Active(rest) # {} \/ rest = {} THEN rest
       ELSE LET n == CHOOSE r \in newest : \A s \in newest : s.id <= r.id
            IN (rest \ {n}) \cup {[n EXCEPT !.is_active = TRUE]}

\* Line 161: DELETE FROM models WHERE id = ?
SqlDelete(rows, id) == {r \in rows : r.id # id}

\* The artifact file left on disk.
OsRemoveNothing(fs, path) == fs

\* Lines 166-167: os.remove if the path exists.
OsRemove(fs, path) == fs \ {path}

\* The SELECT without its WHERE is_active = 1.
SqlSelectNewest(rows) ==
    {r \in rows : \A s \in rows : s.updated_at <= r.updated_at}

\* Lines 95-99: SELECT * WHERE is_active = 1 ORDER BY updated_at DESC LIMIT 1.
\* The rows fetchone may return: none, or any active row with the greatest
\* updated_at (SQL leaves the order of ties open).
SqlSelectActive(rows) ==
    {r \in Active(rows) : \A s \in Active(rows) : s.updated_at <= r.updated_at}

\* Lines 102-116: the row as a dict, or None (the empty set).
GetActiveResults(rows) ==
    IF SqlSelectActive(rows) = {} THEN {{}}
    ELSE {{r} : r \in SqlSelectActive(rows)}

\* Lines 123-146: SELECT * ORDER BY updated_at DESC: every row once, in an order
\* that descends in updated_at.
SqlSelectAll(rows) ==
    {s \in [1..Cardinality(rows) -> rows] :
        /\ \A i, j \in DOMAIN s : i # j => s[i] # s[j]
        /\ \A i, j \in DOMAIN s : i < j => s[i].updated_at >= s[j].updated_at}

\* Lines 182-183, 186-187, 190-194: the three queries of get_model_stats.
SqlCountAll(rows) == Cardinality(rows)

SqlCountActive(rows) == Cardinality(Active(rows))

\* latest_update of the most recently updated row, {} (None) for an empty table.
SqlLatestUpdate(rows) ==
    {r.updated_at : r \in {x \in rows : \A s \in rows : s.updated_at <= x.updated_at}}

Stats(rows) ==
    [total_models |-> SqlCountAll(rows),
     active_models |-> SqlCountActive(rows),
     latest_update |-> SqlLatestUpdate(rows)]

\* ModelStorage.save_model run alone: one transaction, committed at line 84.
SaveModelSeq(st, name, path, now) ==
    LET ins == SqlInsertOrReplace(SqlDeactivateAll(st.models), st.seq, name, path, now)
    IN [models |-> ins.rows, seq |-> ins.seq, files |-> st.files, result |-> ins.seq]

\* ModelStorage.delete_model run alone; removed is the file line 168 logs as deleted.
DeleteModelSeq(st, id) ==
    LET found == SqlSelectFilePath(st.models, id)
    IN IF found = {}
       THEN [models |-> st.models, seq |-> st.seq, files |-> st.files,
             removed |-> {}, result |-> FALSE]
       ELSE LET path == CHOOSE f \in found : TRUE
            IN [models |-> SqlDelete(st.models, id), seq |-> st.seq,
                files |-> IF path \in st.files THEN OsRemove(st.files, path)
                          ELSE st.files,
                removed |-> {path} \cap st.files,
                result |-> TRUE]

Store == [models |-> models, seq |-> seq, files |-> files]

-----------------------------------------------------------------------------
(* Registry specification: calls made one after the other *)

ConcIdle ==
    /\ pc = <<>> /\ call = <<>> /\ tx = <<>> /\ writer = 0
    /\ window = <<>> /\ start = <<>>

\* ModelStorage.__init__ on a fresh models.db: an empty table, no artifact written yet.
InitRegistry == PredictorIdle /\ RegistryEmpty /\ ConcIdle

\* The wall clock moves on by a second.
Tick ==
    /\ clock < MaxClock
    /\ clock' = clock + 1
    /\ last' = [op |-> "tick"]
    /\ UNCHANGED <<models, seq, files>>
    /\ UNCHANGED predVars /\ UNCHANGED concVars

\* CatBoostEffortModel.save_model: joblib.dump writes the artifact file.
DumpArtifact(path) ==
    /\ files' = files \cup {path}
    /\ last' = [op |-> "dump", file_path |-> path]
    /\ UNCHANGED <<models, seq, clock>>
    /\ UNCHANGED predVars /\ UNCHANGED concVars

SaveModel(name, path) ==
    /\ seq < MaxId
    /\ LET res == SaveModelSeq(Store, name, path, clock)
       IN /\ models' = res.models
          /\ seq' = res.seq
          /\ last' = [op |-> "save", model_name |-> name, file_path |-> path,
                      result |-> res.result]
    /\ UNCHANGED <<files, clock>>
    /\ UNCHANGED predVars /\ UNCHANGED concVars

DeleteModel(id) ==
    /\ LET res == DeleteModelSeq(Store, id)
       IN /\ models' = res.models
          /\ files' = res.files
          /\ last' = [op |-> "delete", id |-> id, removed |-> res.removed,
                      result |-> res.result]
    /\ UNCHANGED <<seq, clock>>
    /\ UNCHANGED predVars /\ UNCHANGED concVars

GetActiveModel ==
    /\ \E res \in GetActiveResults(models) :
        last' = [op |-> "get_active", result |-> res]
    /\ UNCHANGED <<models, seq, files, clock>>
    /\ UNCHANGED predVars /\ UNCHANGED concVars

GetAllModels ==
    /\ \E res \in SqlSelectAll(models) :
        last' = [op |-> "get_all", result |-> res]
    /\ UNCHANGED <<models, seq, files, clock>>
    /\ UNCHANGED predVars /\ UNCHANGED concVars

GetModelStats ==
    /\ last' = [op |-> "stats", result |-> Stats(models)]
    /\ UNCHANGED <<models, seq, files, clock>>
    /\ UNCHANGED predVars /\ UNCHANGED concVars

NextRegistry ==
    \/ Tick
    \/ \E path \in FilePaths : DumpArtifact(path)
    \/ \E name \in ModelNames, path \in FilePaths : SaveModel(name, path)
    \/ \E id \in Ids : DeleteModel(id)
    \/ GetActiveModel
    \/ GetAllModels
    \/ GetModelStats

SpecRegistry == InitRegistry /\ [][NextRegistry]_vars

\* Saves only (with reads and the clock): no entry is ever deleted.
NextSaves ==
    \/ Tick
    \/ \E name \in ModelNames, path \in FilePaths : SaveModel(name, path)
    \/ GetActiveModel

SpecSaves == InitRegistry /\ [][NextSaves]_vars

-----------------------------------------------------------------------------
(* Orchestrator specification: one session's DataProcessor at a time, on   *)
(* the shared registry                                                     *)

MaxOrchRows == 1    \* rows of a table handed to predict_effort_expenses
MaxTrainRows == 10  \* rows with a target in a table handed to train_model
MaxOrchSaves == 2   \* DataProcessor.save_model calls that reach the registry

\* effortExpense values: missing, normal, above the default ceiling only.
OrchTargets == {NaN, 12, 33}

PredictTables ==
    [columns : TableColumns, effortExpense : SeqsUpTo(OrchTargets, MaxOrchRows)]

\* A table with k rows that have a target (not all the same) and j rows that
\* have none.
TrainTable(columns, k, j) ==
    [columns |-> columns,
     effortExpense |-> [i \in 1..(k + j) |-> IF i > k THEN NaN
                                             ELSE IF i % 2 = 0 THEN 12 ELSE 18]]

TrainTables ==
    {TrainTable(c, k, j) : c \in TableColumns, k \in 0..MaxTrainRows, j \in 0..1}

\* One table too small to train on and one just large enough, per schema.
SessionTrainTables ==
    {TrainTable(c, k, 0) : c \in TableColumns, k \in {MinTrainingRows - 1, MinTrainingRows}}

\* A table with a missing and an over-limit row, with or without the effort date.
OrchTables == [columns : TableColumns, effortExpense : {<<NaN, 33>>}]

\* The fit of the sessions that persist their model.
OrchRegressors == {1}

\* filepath arguments: None, or the application's fixed path.
References == {NoPath} \cup AppPaths

\* DataProcessor(effort_limit=...): a session starts over with a new object.
NewProcessor(limit) ==
    /\ effort_limit' = limit
    /\ dp_effort_limit' = limit
    /\ is_model_trained' = FALSE
    /\ ml_model' = NewModel
    /\ df' = <<>> /\ raws' = <<>> /\ out' = [status |-> "none"]
    /\ last' = [op |-> "new"]
    /\ UNCHANGED <<artifacts, saved, features, prepared>>
    /\ UNCHANGED <<models, seq, files, clock>> /\ UNCHANGED concVars

\* DataProcessor.train_model: the flag is set only if the fit returned.
DpTrainModel(table, id) ==
    /\ LET res == TrainResult(ml_model, table, id)
       IN /\ ml_model' = res.ml_model
          /\ is_model_trained' = IF res.status = "ok" THEN TRUE ELSE is_model_trained
          /\ last' = [op |-> "train", status |-> res.status,
                      rows |-> Len(table.effortExpense),
                      valid |-> Cardinality({i \in DOMAIN table.effortExpense :
                                               table.effortExpense[i] # NaN})]
    /\ UNCHANGED <<effort_limit, df, raws, out, artifacts, saved,
                   dp_effort_limit, features, prepared>>
    /\ UNCHANGED <<models, seq, files, clock>> /\ UNCHANGED concVars

\* DataProcessor.predict_effort_expenses.
DpPredictEffortExpenses(table) ==
    /\ IF MustTrainFirst(is_model_trained)
       THEN /\ out' = [status |-> "error"]
            /\ last' = [op |-> "predict", status |-> "not_trained",
                        columns |-> table.columns]
            /\ UNCHANGED <<ml_model, raws>>
       ELSE LET res == PredictResult(ml_model, effort_limit, table)
            IN /\ ml_model' = res.ml_model
               /\ raws' = res.raws
               /\ out' = res.out
               /\ last' = [op |-> "predict", status |-> res.status,
                           columns |-> table.columns]
    /\ df' = table.effortExpense
    /\ UNCHANGED <<effort_limit, is_model_trained, artifacts, saved,
                   dp_effort_limit, features, prepared>>
    /\ UNCHANGED <<models, seq, files, clock>> /\ UNCHANGED concVars

\* DataProcessor.save_model: the artifact file first, then the registry entry,
\* whose effort_limit column takes self.effort_limit (line 176).
DpSaveModel(filepath) ==
    /\ seq < MaxOrchSaves
    /\ IF ~is_model_trained \/ ml_model.model.id = 0
       THEN /\ last' = [op |-> "dp_save", status |-> "not_trained"]
            /\ UNCHANGED <<artifacts, saved, models, seq, files>>
       ELSE LET path == IF filepath = NoPath THEN TimestampPaths[clock + 1]
                        ELSE filepath
                dumped == files \cup {path}
                res == SaveModelSeq([models |-> models, seq |-> seq, files |-> dumped],
                                    TimestampNames[clock + 1], path, clock)
            IN /\ artifacts' = WriteFile(artifacts, path, ModelData(ml_model, effort_limit))
               /\ files' = dumped
               /\ models' = res.models
               /\ seq' = res.seq
               /\ saved' = [file_path |-> path, ml_model |-> ml_model,
                            effort_limit |-> effort_limit]
               /\ last' = [op |-> "dp_save", status |-> "ok", file_path |-> path,
                           effort_limit |-> dp_effort_limit,
                           result |-> res.result]
    /\ UNCHANGED <<effort_limit, is_model_trained, df, raws, out, ml_model, clock,
                   dp_effort_limit, features, prepared>>
    /\ UNCHANGED concVars

\* DataProcessor.load_model: the active entry's file if no path is given.
DpLoadModel(filepath) ==
    /\ \E found \in (IF filepath = NoPath THEN GetActiveResults(models)
                     ELSE {{[file_path |-> filepath]}}) :
          IF found = {}
          THEN /\ last' = [op |-> "load", status |-> "no_active_model",
                           reference |-> filepath]
               /\ UNCHANGED <<effort_limit, is_model_trained, ml_model>>
          ELSE LET path == (CHOOSE r \in found : TRUE).file_path
               IN IF path \notin files
                  THEN /\ last' = [op |-> "load", status |-> "file_not_found",
                                   reference |-> filepath, file_path |-> path]
                       /\ UNCHANGED <<effort_limit, is_model_trained, ml_model>>
                  ELSE LET l == Loaded(effort_limit, artifacts[path])
                       IN /\ ml_model' = l.ml_model
                          /\ effort_limit' = l.effort_limit
                          /\ is_model_trained' = TRUE
                          /\ last' = [op |-> "load", status |-> "ok",
                                      reference |-> filepath, file_path |-> path]
    /\ UNCHANGED <<df, raws, out, artifacts, saved,
                   dp_effort_limit, features, prepared>>
    /\ UNCHANGED <<models, seq, files, clock>> /\ UNCHANGED concVars

\* Training alone: tables of every size up to the bound.
NextTrain ==
    \/ \E limit \in EffortLimits : NewProcessor(limit)
    \/ \E table \in TrainTables, id \in Regressors : DpTrainModel(table, id)

SpecTrain == InitRegistry /\ [][NextTrain]_vars

\* One session in memory: construction, training, predictions on any table.
NextSession ==
    \/ \E limit \in EffortLimits : NewProcessor(limit)
    \/ \E table \in SessionTrainTables, id \in Regressors : DpTrainModel(table, id)
    \/ \E table \in PredictTables : DpPredictEffortExpenses(table)

SpecSession == InitRegistry /\ [][NextSession]_vars

\* Sessions that also save to the application's path and load from the registry.
NextOrch ==
    \/ Tick
    \/ \E limit \in EffortLimits : NewProcessor(limit)
    \/ \E table \in SessionTrainTables, id \in OrchRegressors : DpTrainModel(table, id)
    \/ \E table \in OrchTables : DpPredictEffortExpenses(table)
    \/ \E filepath \in AppPaths : DpSaveModel(filepath)
    \/ \E filepath \in References : DpLoadModel(filepath)
    \/ \E id \in Ids : DeleteModel(id)

SpecOrch == InitRegistry /\ [][NextOrch]_vars

-----------------------------------------------------------------------------
(* Registry specification: calls from concurrent clients *)
(*                                                                         *)
(* Every ModelStorage method opens its own sqlite3 connection (default     *)
(* isolation_level): a SELECT runs in autocommit; the first UPDATE, INSERT *)
(* or DELETE opens a transaction that takes the database's write lock and  *)
(* holds it to conn.commit(); its changes stay in the connection until     *)
(* then. A client that cannot get the lock waits, and after the busy       *)
(* timeout gets "database is locked". Clients are sessions of the          *)
(* application, each with its own DataProcessor on the same models.db.     *)

Clients == {1, 2}

\* Two sessions save within the same second (the same model_name) or not.
ConcNames == {"CatBoost_Model_a", "CatBoost_Model_b"}

ConcIds == 1..MaxConcSaves

NoCall == [op |-> "none"]
NoTx == [open |-> FALSE]

AllIdle == \A p \in Clients : pc[p] = "idle"
AllQuiet == \A p \in Clients : pc[p] \in {"idle", "done"}

InSave(p) == pc[p] \in {"save_update", "save_insert", "save_commit"}

\* The committed content of the table: what the file holds once the journal of an
\* open transaction is set aside.
Committed == IF writer # 0 /\ tx[writer].open THEN tx[writer].base ELSE models

\* Autocommit per statement: the working copy is what the others read.
WriteThrough(visible, working) == working

\* What other connections read while a transaction is open: the rows as
\* committed, not the transaction's working copy.
Isolation(visible, working) == visible

\* No lock: any client may start writing.
CanWriteUnlocked(p) == TRUE

\* SQLite's single-writer lock.
CanWrite(p) == writer = 0

InitConc ==
    /\ PredictorIdle /\ RegistryEmpty
    /\ pc = [p \in Clients |-> "idle"]
    /\ call = [p \in Clients |-> NoCall]
    /\ tx = [p \in Clients |-> NoTx]
    /\ writer = 0
    /\ window = [p \in Clients |-> {}]
    /\ start = Store

\* Where the other clients stand in their calls when p's call begins.
Overlap(p) == {pc[q] : q \in Clients \ {p}} \ {"idle", "done"}

\* A call begins: remember the store if no other call is running.
RoundStart == IF AllIdle THEN Store ELSE start

\* A commit becomes part of what every read call in progress has lived through.
Witnessed(rows) ==
    [p \in Clients |->
        IF pc[p] \in {"stats_active", "stats_latest"} THEN window[p] \cup {rows}
        ELSE window[p]]

ConcTick ==
    /\ clock < MaxClock
    /\ clock' = clock + 1
    /\ UNCHANGED <<models, seq, files, last>>
    /\ UNCHANGED predVars /\ UNCHANGED concVars

\* joblib.dump by a session before it calls the registry.
ConcDumpArtifact(path) ==
    /\ AllIdle
    /\ path \notin files
    /\ files' = files \cup {path}
    /\ start' = [start EXCEPT !.files = files \cup {path}]
    /\ UNCHANGED <<models, seq, clock, last>>
    /\ UNCHANGED <<pc, call, tx, writer, window>>
    /\ UNCHANGED predVars

\* save_model, line 66: connect.
BeginSave(p, name, path) ==
    /\ pc[p] = "idle"
    /\ seq + Cardinality({q \in Clients : InSave(q)}) < MaxConcSaves
    /\ pc' = [pc EXCEPT ![p] = "save_update"]
    /\ call' = [call EXCEPT ![p] = [op |-> "save", model_name |-> name,
                                    file_path |-> path, now |-> 0, result |-> 0,
                                    overlap |-> Overlap(p), locked |-> FALSE]]
    /\ start' = RoundStart
    /\ UNCHANGED <<tx, writer, window>>
    /\ UNCHANGED regVars /\ UNCHANGED predVars

\* save_model, line 70: the UPDATE opens the transaction.
SaveUpdate(p) ==
    /\ pc[p] = "save_update"
    /\ CanWrite(p)
    /\ writer' = p
    /\ tx' = [tx EXCEPT ![p] = [open |-> TRUE, base |-> models,
                                models |-> SqlDeactivateAll(models), seq |-> seq]]
    /\ models' = Isolation(models, SqlDeactivateAll(models))
    /\ pc' = [pc EXCEPT ![p] = "save_insert"]
    /\ UNCHANGED <<call, window, start, seq, files, clock, last>>
    /\ UNCHANGED predVars

\* save_model, line 70: the lock is held by another client for longer than the
\* busy timeout: sqlite3.OperationalError, nothing written.
SaveBusy(p) ==
    /\ pc[p] = "save_update"
    /\ writer # 0
    /\ pc' = [pc EXCEPT ![p] = "done"]
    /\ call' = [call EXCEPT ![p].locked = TRUE]
    /\ UNCHANGED <<tx, writer, window, start>>
    /\ UNCHANGED regVars /\ UNCHANGED predVars

\* save_model, lines 73-83: INSERT OR REPLACE and lastrowid.
SaveInsert(p) ==
    /\ pc[p] = "save_insert"
    /\ LET ins == SqlInsertOrReplace(tx[p].models, tx[p].seq,
                                     call[p].model_name, call[p].file_path, clock)
       IN /\ tx' = [tx EXCEPT ![p].models = ins.rows, ![p].seq = ins.seq]
          /\ call' = [call EXCEPT ![p].now = clock, ![p].result = ins.seq]
          /\ models' = Isolation(models, ins.rows)
    /\ pc' = [pc EXCEPT ![p] = "save_commit"]
    /\ UNCHANGED <<writer, window, start, seq, files, clock, last>>
    /\ UNCHANGED predVars

\* save_model, line 84: commit.
SaveCommit(p) ==
    /\ pc[p] = "save_commit"
    /\ models' = tx[p].models
    /\ seq' = tx[p].seq
    /\ writer' = IF writer = p THEN 0 ELSE writer
    /\ tx' = [tx EXCEPT ![p] = NoTx]
    /\ window' = Witnessed(tx[p].models)
    /\ pc' = [pc EXCEPT ![p] = "done"]
    /\ UNCHANGED <<call, start, files, clock, last>>
    /\ UNCHANGED predVars

\* delete_model, lines 150-157 and 173-174: connect and SELECT file_path.
DelSelect(p, id) ==
    /\ pc[p] = "idle"
    /\ LET found == SqlSelectFilePath(models, id)
       IN IF found = {}
          THEN /\ pc' = [pc EXCEPT ![p] = "done"]
               /\ call' = [call EXCEPT ![p] = [op |-> "delete", id |-> id,
                                               file_path |-> "", result |-> FALSE,
                                               overlap |-> Overlap(p), locked |-> FALSE]]
          ELSE /\ pc' = [pc EXCEPT ![p] = "del_delete"]
               /\ call' = [call EXCEPT ![p] = [op |-> "delete", id |-> id,
                                               file_path |-> CHOOSE f \in found : TRUE,
                                               result |-> TRUE,
                                               overlap |-> Overlap(p), locked |-> FALSE]]
    /\ start' = RoundStart
    /\ UNCHANGED <<tx, writer, window>>
    /\ UNCHANGED regVars /\ UNCHANGED predVars

\* delete_model, line 161: the DELETE opens the transaction.
DelDelete(p) ==
    /\ pc[p] = "del_delete"
    /\ CanWrite(p)
    /\ writer' = p
    /\ tx' = [tx EXCEPT ![p] = [open |-> TRUE, base |-> models,
                                models |-> SqlDelete(models, call[p].id), seq |-> seq]]
    /\ models' = Isolation(models, SqlDelete(models, call[p].id))
    /\ pc' = [pc EXCEPT ![p] = "del_commit"]
    /\ UNCHANGED <<call, window, start, seq, files, clock, last>>
    /\ UNCHANGED predVars

\* delete_model, line 161: "database is locked".
DelBusy(p) ==
    /\ pc[p] = "del_delete"
    /\ writer # 0
    /\ pc' = [pc EXCEPT ![p] = "done"]
    /\ call' = [call EXCEPT ![p].locked = TRUE]
    /\ UNCHANGED <<tx, writer, window, start>>
    /\ UNCHANGED regVars /\ UNCHANGED predVars

\* delete_model, lines 162-163: commit.
DelCommit(p) ==
    /\ pc[p] = "del_commit"
    /\ models' = tx[p].models
    /\ writer' = IF writer = p THEN 0 ELSE writer
    /\ tx' = [tx EXCEPT ![p] = NoTx]
    /\ window' = Witnessed(tx[p].models)
    /\ pc' = [pc EXCEPT ![p] = "del_remove"]
    /\ UNCHANGED <<call, start, seq, files, clock, last>>
    /\ UNCHANGED predVars

\* delete_model, lines 165-171: remove the file if it exists, return True.
DelRemove(p) ==
    /\ pc[p] = "del_remove"
    /\ files' = IF call[p].file_path \in files
                THEN OsRemove(files, call[p].file_path) ELSE files
    /\ pc' = [pc EXCEPT ![p] = "done"]
    /\ UNCHANGED <<call, tx, writer, window, start, models, seq, clock, last>>
    /\ UNCHANGED predVars

\* get_active_model: one SELECT.
ConcGetActive(p) ==
    /\ pc[p] = "idle"
    /\ \E res \in GetActiveResults(models) :
        call' = [call EXCEPT ![p] = [op |-> "get_active", result |-> res,
                                     overlap |-> Overlap(p), locked |-> FALSE]]
    /\ window' = [window EXCEPT ![p] = {Committed}]
    /\ pc' = [pc EXCEPT ![p] = "done"]
    /\ start' = RoundStart
    /\ UNCHANGED <<tx, writer>>
    /\ UNCHANGED regVars /\ UNCHANGED predVars

\* get_all_models: one SELECT.
ConcGetAll(p) ==
    /\ pc[p] = "idle"
    /\ \E res \in SqlSelectAll(models) :
        call' = [call EXCEPT ![p] = [op |-> "get_all", result |-> res,
                                     overlap |-> Overlap(p), locked |-> FALSE]]
    /\ window' = [window EXCEPT ![p] = {Committed}]
    /\ pc' = [pc EXCEPT ![p] = "done"]
    /\ start' = RoundStart
    /\ UNCHANGED <<tx, writer>>
    /\ UNCHANGED regVars /\ UNCHANGED predVars

\* get_model_stats, lines 182-183: the first of three SELECTs.
StatsTotal(p) ==
    /\ pc[p] = "idle"
    /\ call' = [call EXCEPT ![p] = [op |-> "stats",
                  result |-> [total_models |-> SqlCountAll(models),
                              active_models |-> 0, latest_update |-> {}],
                  overlap |-> Overlap(p), locked |-> FALSE]]
    /\ window' = [window EXCEPT ![p] = {Committed}]
    /\ pc' = [pc EXCEPT ![p] = "stats_active"]
    /\ start' = RoundStart
    /\ UNCHANGED <<tx, writer>>
    /\ UNCHANGED regVars /\ UNCHANGED predVars

\* get_model_stats, lines 186-187.
StatsActive(p) ==
    /\ pc[p] = "stats_active"
    /\ call' = [call EXCEPT ![p].result.active_models = SqlCountActive(models)]
    /\ pc' = [pc EXCEPT ![p] = "stats_latest"]
    /\ UNCHANGED <<tx, writer, window, start>>
    /\ UNCHANGED regVars /\ UNCHANGED predVars

\* get_model_stats, lines 190-203.
StatsLatest(p) ==
    /\ pc[p] = "stats_latest"
    /\ call' = [call EXCEPT ![p].result.latest_update = SqlLatestUpdate(models)]
    /\ pc' = [pc EXCEPT ![p] = "done"]
    /\ UNCHANGED <<tx, writer, window, start>>
    /\ UNCHANGED regVars /\ UNCHANGED predVars

\* Every call of the round has returned.
Return ==
    /\ AllQuiet /\ ~AllIdle
    /\ pc' = [p \in Clients |-> "idle"]
    /\ call' = [p \in Clients |-> NoCall]
    /\ window' = [p \in Clients |-> {}]
    /\ start' = Store
    /\ UNCHANGED <<tx, writer>>
    /\ UNCHANGED regVars /\ UNCHANGED predVars

NextConc ==
    \/ ConcTick
    \/ \E path \in FilePaths : ConcDumpArtifact(path)
    \/ \E p \in Clients, name \in ConcNames, path \in FilePaths : BeginSave(p, name, path)
    \/ \E p \in Clients : SaveUpdate(p)
    \/ \E p \in Clients : SaveBusy(p)
    \/ \E p \in Clients : SaveInsert(p)
    \/ \E p \in Clients : SaveCommit(p)
    \/ \E p \in Clients, id \in ConcIds : DelSelect(p, id)
    \/ \E p \in Clients : DelDelete(p)
    \/ \E p \in Clients : DelBusy(p)
    \/ \E p \in Clients : DelCommit(p)
    \/ \E p \in Clients : DelRemove(p)
    \/ \E p \in Clients : ConcGetActive(p)
    \/ \E p \in Clients : ConcGetAll(p)
    \/ \E p \in Clients : StatsTotal(p)
    \/ \E p \in Clients : StatsActive(p)
    \/ \E p \in Clients : StatsLatest(p)
    \/ Return

SpecConc == InitConc /\ [][NextConc]_vars

-----------------------------------------------------------------------------
(* Properties of the constrained predictor *)

Returned == out.status = "ok"

RowsOf(o) == 1..Len(o.rows)

\* C1: in every table predict returns, every row's final value is a number that
\* is at most the ceiling, whatever mix of missing, over-limit and normal rows
\* the table holds and whatever the regressor returned.
C1_CeilingInvariant ==
    Returned =>
        \A i \in RowsOf(out) :
            /\ out.rows[i].effortExpense_final # NaN
            /\ out.rows[i].effortExpense_final <= effort_limit

\* A returned table with a missing row whose raw output was above the ceiling,
\* an over-limit row and a normal row together.
C1_Witness ==
    /\ Returned
    /\ \E i, j, k \in RowsOf(out) :
        /\ df[i] = NaN /\ raws[RankIn(out.rows, i)] > effort_limit
        /\ df[j] # NaN /\ df[j] > effort_limit
        /\ df[k] # NaN /\ df[k] <= effort_limit

\* C2: a row whose target is present and not above the ceiling comes back with
\* final and predicted both equal to its original target, whatever the other rows are.
C2_Passthrough ==
    Returned =>
        \A i \in RowsOf(out) :
            (df[i] # NaN /\ df[i] <= effort_limit) =>
                /\ out.rows[i].effortExpense_final = df[i]
                /\ out.rows[i].effortExpense_predicted = df[i]

\* A normal row first, followed by a row that was predicted to another value.
C2_Witness ==
    /\ Returned
    /\ Len(df) >= 2
    /\ df[1] # NaN /\ df[1] <= effort_limit
    /\ df[2] = NaN
    /\ out.rows[2].effortExpense_final # df[1]
    /\ out.rows[1].effortExpense_final = df[1]

\* C3: a row whose target is strictly above the ceiling comes back with final
\* equal to the ceiling, whatever the regressor predicted for it.
C3_OverLimitTruncation ==
    Returned =>
        \A i \in RowsOf(out) :
            (df[i] # NaN /\ df[i] > effort_limit) =>
                out.rows[i].effortExpense_final = effort_limit

\* An over-limit row whose clamped prediction is below the ceiling.
C3_Witness ==
    /\ Returned
    /\ \E i \in RowsOf(out) :
        /\ df[i] # NaN /\ df[i] > effort_limit
        /\ out.rows[i].effortExpense_predicted < effort_limit
        /\ out.rows[i].effortExpense_final = effort_limit

-----------------------------------------------------------------------------
(* Properties of the registry, calls made one after the other *)

\* C4: after any non-empty sequence of save calls exactly one entry is active,
\* and it is the entry the most recent save wrote (the id that save returned,
\* under the name and path it was given); before any save no entry is active.
C4_SingleActiveAfterSaves ==
    /\ seq = 0 => models = {}
    /\ seq > 0 => \E r \in models : Active(models) = {r} /\ r.id = seq
    /\ last.op = "save" =>
          \E r \in models :
              /\ Active(models) = {r}
              /\ r.id = last.result
              /\ r.model_name = last.model_name
              /\ r.file_path = last.file_path

\* A save has just returned and an earlier, superseded entry is still there.
C4_Witness ==
    /\ last.op = "save"
    /\ seq >= 2
    /\ \E r \in models : ~r.is_active

\* C5: whatever saves and deletes were made, in whatever order, at most one
\* registry entry is active.
C5_AtMostOneActive == Cardinality(Active(models)) <= 1

\* A delete has removed an entry and an active entry and a superseded one remain.
C5_Witness ==
    /\ last.op = "delete" /\ last.result = TRUE
    /\ Active(models) # {}
    /\ \E r \in models : ~r.is_active

\* C8: get_active_model returns an entry of the registry that is active and has
\* the greatest update timestamp among the active ones; it returns None exactly
\* when no entry is active, in particular when nothing was ever saved.
C8_GetActive ==
    last.op = "get_active" =>
        /\ (last.result = {}) <=> (Active(models) = {})
        /\ seq = 0 => last.result = {}
        /\ \A r \in last.result :
              /\ r \in models
              /\ r.is_active
              /\ \A s \in Active(models) : s.updated_at <= r.updated_at

\* The active entry is returned while a superseded entry with the same
\* timestamp is in the table.
C8_Witness ==
    /\ last.op = "get_active"
    /\ \E r \in last.result, s \in models :
          ~s.is_active /\ s.updated_at = r.updated_at

\* C9: delete of a present id removes exactly that row and its artifact file
\* and returns True; delete of an absent id returns False and changes neither
\* the rows nor the files.
C9_DeleteEffect ==
    [][last'.op = "delete" =>
          LET hit == {r \in models : r.id = last'.id}
          IN IF hit # {}
             THEN /\ last'.result = TRUE
                  /\ models' = models \ hit
                  /\ Cardinality(hit) = 1
                  /\ \A r \in hit : files' = files \ {r.file_path}
             ELSE /\ last'.result = FALSE
                  /\ models' = models
                  /\ files' = files]_vars

\* A delete returned True, removed a file, and other entries remain.
C9_Witness ==
    /\ last.op = "delete" /\ last.result = TRUE
    /\ last.removed # {}
    /\ models # {}

\* C10: delete leaves every remaining entry as it was, active flag included, so
\* deleting the active entry leaves none active; from then on no entry is
\* active and get_active_model returns None until a save is made.
C10_DeleteKeepsFlags ==
    [][/\ last'.op = "delete" => \A r \in models' : r \in models
       /\ (last'.op = "delete" /\ \E r \in Active(models) : r.id = last'.id)
             => Active(models') = {}
       /\ (Active(models) = {} /\ last'.op # "save") => Active(models') = {}
       /\ (last'.op = "get_active" /\ Active(models) = {}) => last'.result = {}
      ]_vars

\* get_active_model returns None although superseded entries remain.
C10_Witness ==
    /\ last.op = "get_active"
    /\ last.result = {}
    /\ models # {}

-----------------------------------------------------------------------------
(* Properties of the registry under concurrent clients *)

Reads == {"get_active", "get_all", "stats"}

\* The read call of client p returned what it returns on the table `rows`.
ReadsAs(p, rows) ==
    CASE call[p].op = "get_active" -> call[p].result \in GetActiveResults(rows)
      [] call[p].op = "get_all" -> call[p].result \in SqlSelectAll(rows)
      [] call[p].op = "stats" -> call[p].result = Stats(rows)
      [] OTHER -> TRUE

\* C6 as stated: every get_active_model, get_all_models and get_model_stats
\* call returns what it would return on one committed state of the table that
\* existed during the call: the state before a concurrent save or the state
\* after it.
C6_ReadsOneCommittedState ==
    \A p \in Clients :
        (pc[p] = "done" /\ call[p].op \in Reads) =>
            \E rows \in window[p] : ReadsAs(p, rows)

\* C6, amended: get_active_model and get_all_models return what one committed
\* state holds; each of the three numbers of get_model_stats is that of a
\* committed state that existed during the call (not necessarily the same one),
\* so no reader sees two active entries or the table of an open transaction.
C6_ReadsCommitted ==
    \A p \in Clients :
        /\ (pc[p] = "done" /\ call[p].op \in {"get_active", "get_all"}) =>
              \E rows \in window[p] : ReadsAs(p, rows)
        /\ (pc[p] \in {"stats_active", "stats_latest", "done"} /\ call[p].op = "stats") =>
              \E rows \in window[p] : call[p].result.total_models = SqlCountAll(rows)
        /\ (pc[p] \in {"stats_latest", "done"} /\ call[p].op = "stats") =>
              /\ \E rows \in window[p] :
                    call[p].result.active_models = SqlCountActive(rows)
              /\ call[p].result.active_models <= 1
        /\ (pc[p] = "done" /\ call[p].op = "stats") =>
              \E rows \in window[p] :
                    call[p].result.latest_update = SqlLatestUpdate(rows)

\* A reader was handed the active entry while another client's save had already
\* deactivated it inside its open transaction.
C6_Witness ==
    \E p, q \in Clients :
        /\ pc[p] = "done" /\ call[p].op = "get_active"
        /\ call[p].result # {}
        /\ call[p].overlap \cap {"save_insert", "save_commit"} # {}
        /\ pc[q] = "save_commit"

\* The write calls of the round that ran to their end.
Writes == {p \in Clients : /\ pc[p] = "done"
                           /\ call[p].op \in {"save", "delete"}
                           /\ ~call[p].locked}

Orders(S) == {o \in [1..Cardinality(S) -> S] :
                \A i, j \in DOMAIN o : i # j => o[i] # o[j]}

RECURSIVE Replay(_, _)
\* The calls of `order`, made one after the other from store st.
Replay(st, order) ==
    IF order = <<>> THEN st
    ELSE LET c == call[Head(order)]
             r == IF c.op = "save"
                  THEN SaveModelSeq(st, c.model_name, c.file_path, c.now)
                  ELSE DeleteModelSeq(st, c.id)
         IN Replay([models |-> r.models, seq |-> r.seq, files |-> r.files],
                   Tail(order))

\* C7: once the concurrent write calls have returned, the rows, the id sequence
\* and the files are those of making the calls that were carried out one after
\* the other in some order (a call refused with "database is locked" wrote
\* nothing); at most one entry is active and it is the one written by the save
\* that committed last.
C7_WritersSerialize ==
    AllQuiet =>
        /\ \E order \in Orders(Writes) : Replay(start, order) = Store
        /\ Cardinality(Active(models)) <= 1
        /\ \A r \in Active(models) : r.id = seq

\* Two saves that were in progress together have both committed.
C7_Witness ==
    /\ AllQuiet
    /\ Writes = Clients
    /\ \A p \in Clients : call[p].op = "save"
    /\ \E p \in Clients : call[p].overlap # {}
    /\ Cardinality(models) = 2

-----------------------------------------------------------------------------
(* Properties of sessions that train, save and load *)

\* C11: an entry that was saved and not deleted stays in the registry whatever
\* saves follow: no call other than delete_model removes an entry, and once a
\* later save has been made the entry is still there, with is_active false.
C11_SupersededRemains ==
    [][last'.op # "delete" =>
          \A r \in models :
              /\ \E s \in models' : /\ s.id = r.id
                                    /\ s.model_name = r.model_name
                                    /\ s.file_path = r.file_path
              /\ (last'.op = "dp_save" /\ last'.status = "ok") =>
                    \E s \in models' : s.id = r.id /\ ~s.is_active]_vars

\* What predict_effort_expenses returns for a table: the corrected table, or an
\* error.
PredictOutcome(trained, m, limit, table) ==
    IF MustTrainFirst(trained) THEN [status |-> "error"]
    ELSE PredictResult(m, limit, table).out

\* C12: after save_model and then load_model of the saved file, by the same
\* DataProcessor or by a new one, predict_effort_expenses returns for every
\* table what the model that was saved returned for it.
C12_PersistenceRoundTrip ==
    (last.op = "load" /\ last.status = "ok" /\ last.file_path = saved.file_path) =>
        /\ is_model_trained
        /\ \A table \in PredictTables :
              PredictOutcome(is_model_trained, ml_model, effort_limit, table)
                  = PredictOutcome(TRUE, saved.ml_model, saved.effort_limit, table)

\* The active entry's file was loaded; it had been saved with the second ceiling
\* by a model whose column list a predict call had changed since training.
C12_Witness ==
    /\ last.op = "load" /\ last.status = "ok" /\ last.reference = NoPath
    /\ last.file_path = saved.file_path
    /\ saved.effort_limit # EFFORT_EXPENSE_LIMIT
    /\ saved.ml_model.feature_columns # saved.ml_model.model.features

\* C13: a predict call, on whatever table, leaves unchanged what predict returns
\* for every table, so two calls on the same table with the same loaded model
\* return the same corrected table whatever calls were made in between; and
\* the table a call returns is that result.
C13_Determinism ==
    [][last'.op = "predict" =>
          /\ \A table \in PredictTables :
                PredictOutcome(is_model_trained', ml_model', effort_limit', table)
                    = PredictOutcome(is_model_trained, ml_model, effort_limit, table)
          /\ out' = PredictOutcome(is_model_trained, ml_model, effort_limit,
                                   [columns |-> last'.columns, effortExpense |-> df'])
      ]_vars

\* A trained model has just been given a table whose columns are not those it
\* was trained on, and its column list is no longer the one of the training.
C13_Witness ==
    /\ last.op = "predict"
    /\ is_model_trained
    /\ ml_model.feature_columns # ml_model.model.features
    /\ FeatureColumns(last.columns) # ml_model.model.features

C15_SchemaFixed ==
    [][(last'.op = "predict" /\ is_model_trained) =>
          /\ ml_model'.feature_columns = ml_model.feature_columns
          /\ ml_model'.categorical_columns = ml_model.categorical_columns
          /\ FeatureColumns(last'.columns) # ml_model.model.features =>
                last'.status = "error"]_vars

\* C16: load_model without a path loads the file of the active registry entry:
\* afterwards the model in memory is what that file holds and the DataProcessor
\* is trained. When no entry is active it raises the no-active-model error, and
\* then (as when the entry's file is gone) the trained flag and the model in
\* memory are as before.
C16_LoadActive ==
    [][(last'.op = "load" /\ last'.reference = NoPath) =>
          IF Active(models) = {}
          THEN /\ last'.status = "no_active_model"
               /\ UNCHANGED <<is_model_trained, ml_model, effort_limit>>
          ELSE \E r \in Active(models) :
                  /\ last'.file_path = r.file_path
                  /\ IF r.file_path \in files
                     THEN /\ last'.status = "ok"
                          /\ is_model_trained'
                          /\ ModelData(ml_model', effort_limit') = artifacts[r.file_path]
                     ELSE /\ last'.status = "file_not_found"
                          /\ UNCHANGED <<is_model_trained, ml_model, effort_limit>>
      ]_vars

\* A trained DataProcessor asked for the active model while the registry held
\* entries but none of them active: the error, and it is still trained.
C16_Witness ==
    /\ last.op = "load" /\ last.reference = NoPath
    /\ last.status = "no_active_model"
    /\ models # {}
    /\ is_model_trained

\* C17: a DataProcessor is untrained from its construction until a train_model
\* or load_model call succeeds; while it is untrained, predict_effort_expenses
\* and save_model raise and change neither the DataProcessor nor the registry
\* and its files; so every registry entry is created by the save_model of a
\* trained DataProcessor, and is active when created.
C17_Lifecycle ==
    /\ ~is_model_trained
    /\ [][/\ last'.op = "new" => ~is_model_trained'
          /\ (is_model_trained' /\ ~is_model_trained) =>
                (last'.op \in {"train", "load"} /\ last'.status = "ok")
          /\ (~is_model_trained /\ last'.op \in {"predict", "dp_save"}) =>
                /\ last'.status = "not_trained"
                /\ UNCHANGED <<is_model_trained, ml_model, effort_limit>>
                /\ UNCHANGED <<models, seq, files, artifacts>>
          /\ \A r \in models' :
                (\A s \in models : s.id # r.id) =>
                    /\ last'.op = "dp_save" /\ last'.status = "ok"
                    /\ is_model_trained
                    /\ r.is_active
         ]_vars

\* An untrained DataProcessor's save_model was refused while the registry
\* already held an entry made by an earlier, trained one.
C17_Witness ==
    /\ last.op = "dp_save" /\ last.status = "not_trained"
    /\ ~is_model_trained
    /\ models # {}

-----------------------------------------------------------------------------
(* Further properties of the registry and of predict *)

\* C18: get_all_models returns every entry of the registry exactly once, and of
\* any two entries the one written by the later save (the greater id) comes
\* before the one written by the earlier save.
C18_ListAllOrder ==
    last.op = "get_all" =>
        /\ Len(last.result) = Cardinality(models)
        /\ \A r \in models : \E i \in DOMAIN last.result : last.result[i] = r
        /\ \A i, j \in DOMAIN last.result :
              i < j => last.result[i].id > last.result[j].id

\* The nearest value to x in [0, limit].
Clamp(x, limit) == IF x < 0 THEN 0 ELSE IF x > limit THEN limit ELSE x

\* C19: for every row that needs a prediction the predicted value is the raw
\* output of the regressor for that row clamped to [0, ceiling]; a row with a
\* missing target takes that value as its final value too, a row over the limit
\* keeps it in the predicted column only and its final value is the ceiling.
C19_PredictedIsClamped ==
    Returned =>
        \A i \in RowsOf(out) :
            /\ out.rows[i].needs_prediction <=> (df[i] = NaN \/ df[i] > effort_limit)
            /\ out.rows[i].needs_prediction =>
                  out.rows[i].effortExpense_predicted
                      = Clamp(raws[RankIn(out.rows, i)], effort_limit)
            /\ df[i] = NaN =>
                  out.rows[i].effortExpense_final = out.rows[i].effortExpense_predicted
            /\ (df[i] # NaN /\ df[i] > effort_limit) =>
                  out.rows[i].effortExpense_final = effort_limit

\* A missing row whose raw output was negative, and an over-limit row whose
\* predicted value stayed below its final value.
C19_Witness ==
    /\ Returned
    /\ \E i, j \in RowsOf(out) :
          /\ df[i] = NaN
          /\ raws[RankIn(out.rows, i)] < 0
          /\ out.rows[i].effortExpense_final = 0
          /\ df[j] # NaN /\ df[j] > effort_limit
          /\ out.rows[j].effortExpense_predicted < out.rows[j].effortExpense_final

\* C20: the two sweeps at the end of predict never find anything: after the
\* loop no predicted value of a row that needed a prediction exceeds the
\* ceiling, and no final value does, for any table and any raw outputs.
C20_SweepsUnreachable ==
    Returned =>
        /\ out.high_predictions = 0
        /\ out.final_high_values = 0

\* Every row of a full table needed a prediction and every raw output was above
\* the ceiling, for a missing row and for an over-limit row.
C20_Witness ==
    /\ Returned
    /\ Len(df) = MaxRows
    /\ \A i \in RowsOf(out) :
          /\ out.rows[i].needs_prediction
          /\ raws[RankIn(out.rows, i)] > effort_limit
    /\ \E i, j \in RowsOf(out) : df[i] = NaN /\ df[j] # NaN

-----------------------------------------------------------------------------
(* Properties of failed training, shared models, imputation and ceilings *)

\* C21: a train_model call that raises the not-enough-data error leaves the
\* trained flag and every field of the model in memory (regressor, scaler,
\* feature list, categorical list) as they were before the call.
C21_FailedTrainingChangesNothing ==
    [][(last'.op = "train" /\ last'.status = "insufficient_data") =>
          /\ is_model_trained' = is_model_trained
          /\ ml_model' = ml_model]_vars

-----------------------------------------------------------------------------
(* One trained model in memory, used by two callers at once                *)
(*                                                                         *)
(* predict is not atomic: prepare_features (line 245) writes the model's   *)
(* column lists, and the lines that select, transform and infer (262-276)  *)
(* read them again. The other caller's steps may fall in between.          *)

\* The model after a successful training on a table of either schema.
SharedModels ==
    {Fit(PrepareFeatures(NewModel, c), id) : c \in TableColumns, id \in OrchRegressors}

InitShared ==
    /\ effort_limit \in EffortLimits
    /\ dp_effort_limit = effort_limit
    /\ features = NoFeatures /\ prepared = NoFeatures
    /\ is_model_trained = TRUE
    /\ ml_model \in SharedModels
    /\ df = <<>> /\ raws = <<>> /\ out = [status |-> "none"]
    /\ artifacts = <<>> /\ saved = NothingSaved
    /\ RegistryEmpty
    /\ pc = [p \in Clients |-> "idle"]
    /\ call = [p \in Clients |-> NoCall]
    /\ tx = [p \in Clients |-> NoTx]
    /\ writer = 0
    /\ window = [p \in Clients |-> {}]
    /\ start = Store

\* Line 245: the caller's table is prepared and the model's lists are assigned.
PredictPrepare(p, table) ==
    /\ pc[p] = "idle"
    /\ ml_model' = PrepareFeatures(ml_model, table.columns)
    /\ pc' = [pc EXCEPT ![p] = "predict_infer"]
    /\ call' = [call EXCEPT ![p] = [op |-> "predict", table |-> table]]
    /\ UNCHANGED <<effort_limit, is_model_trained, df, raws, out, artifacts, saved,
                   dp_effort_limit, features, prepared>>
    /\ UNCHANGED regVars /\ UNCHANGED <<tx, writer, window, start>>

\* Lines 247-330 with the lists as they are now.
PredictInfer(p) ==
    /\ pc[p] = "predict_infer"
    /\ pc' = [pc EXCEPT ![p] = "done"]
    /\ call' = [call EXCEPT ![p] =
                   [op |-> "predict", table |-> call[p].table,
                    result |-> Infer(ml_model, effort_limit, call[p].table).out]]
    /\ UNCHANGED predVars /\ UNCHANGED regVars
    /\ UNCHANGED <<tx, writer, window, start>>

\* The caller takes its result.
PredictReturn(p) ==
    /\ pc[p] = "done"
    /\ pc' = [pc EXCEPT ![p] = "idle"]
    /\ call' = [call EXCEPT ![p] = NoCall]
    /\ UNCHANGED predVars /\ UNCHANGED regVars
    /\ UNCHANGED <<tx, writer, window, start>>

NextShared ==
    \/ \E p \in Clients, table \in PredictTables : PredictPrepare(p, table)
    \/ \E p \in Clients : PredictInfer(p)
    \/ \E p \in Clients : PredictReturn(p)

SpecShared == InitShared /\ [][NextShared]_vars

\* C22: predict calls that run at the same time on one trained model return,
\* under every interleaving, what each would return running alone: the result
\* a caller holds is the result of predict for its table.
C22_ConcurrentAsSequential ==
    \A p \in Clients :
        pc[p] = "done" =>
            call[p].result = PredictOutcome(TRUE, ml_model, effort_limit, call[p].table)

-----------------------------------------------------------------------------
(* prepare_features on the cells of a table: one numerical covariate        *)
(* (effortTimeCosts) and one categorical covariate (taskType)              *)

MaxFeatureRows == 3   \* rows of a table handed to prepare_features

\* A cell that is not a number (text in a numerical column).
NotANumber == -8888

\* Cells of a numerical column as uploaded, and of a categorical column (None
\* is the missing cell).
NumericalCells == {NaN, NotANumber, 2, 4, 8}
None == "None"
CategoricalCells == {None, "Development"}

FeatureTables ==
    UNION {[effortTimeCosts : [1..n -> NumericalCells],
            taskType : [1..n -> CategoricalCells]] : n \in 0..MaxFeatureRows}

\* Line 81: pd.to_numeric(errors='coerce') turns what is not a number into NaN.
ToNumeric(x) == IF x = NotANumber THEN NaN ELSE x

\* The k-th smallest of the values of a sequence.
Kth(v, k) ==
    CHOOSE x \in Range(v) :
        /\ Cardinality({i \in DOMAIN v : v[i] < x}) < k
        /\ k <= Cardinality({i \in DOMAIN v : v[i] <= x})

\* Series.median(): of the values that are not NaN; NaN if there are none.
Median(column) ==
    LET v == DropNa(column)
        n == Len(v)
    IN IF n = 0 THEN NaN
       ELSE IF n % 2 = 1 THEN Kth(v, (n + 1) \div 2)
       ELSE (Kth(v, n \div 2) + Kth(v, n \div 2 + 1)) \div 2

\* Series.fillna(value): a NaN value fills nothing.
FillNa(column, value) ==
    [i \in DOMAIN column |-> IF IsNa(column[i]) THEN value ELSE column[i]]

\* Lines 79-82: the column made numeric, then filled with its own median.
FillNumerical(column) ==
    LET numeric == [i \in DOMAIN column |-> ToNumeric(column[i])]
    IN FillNa(numeric, Median(numeric))

\* Lines 85-87.
FillCategorical(column) ==
    [i \in DOMAIN column |-> IF column[i] = None THEN "Unknown" ELSE column[i]]

\* prepare_features, called by train_model (line 100), predict (line 245) and
\* cross_validate (line 384): the table it returns, and the model's lists.
PrepareFeaturesCall(table) ==
    /\ features' = table
    /\ prepared' = [effortTimeCosts |-> FillNumerical(table.effortTimeCosts),
                    taskType |-> FillCategorical(table.taskType)]
    /\ ml_model' = PrepareFeatures(ml_model, {"effortTimeCosts", "taskType"})
    /\ UNCHANGED <<effort_limit, is_model_trained, df, raws, out, artifacts, saved,
                   dp_effort_limit>>
    /\ UNCHANGED regVars /\ UNCHANGED concVars

NextFeatures == \E table \in FeatureTables : PrepareFeaturesCall(table)

SpecFeatures == InitRegistry /\ [][NextFeatures]_vars

\* C23: in the table prepare_features returns no cell of a numerical covariate
\* and no cell of a categorical covariate is missing, also when the numerical
\* column had no value in any row.
C23_PreparedHasNoNulls ==
    /\ \A i \in DOMAIN prepared.effortTimeCosts : ~IsNa(prepared.effortTimeCosts[i])
    /\ \A i \in DOMAIN prepared.taskType : prepared.taskType[i] # None

\* C24: the value prepare_features puts into a row's missing numerical cell does
\* not depend on the other rows of the table: in every table with the same row
\* at the same place the cell is filled with the same value.
C24_ImputationIgnoresOtherRows ==
    \A i \in DOMAIN features.effortTimeCosts :
        IsNa(ToNumeric(features.effortTimeCosts[i])) =>
            \A other \in FeatureTables :
                (/\ i \in DOMAIN other.effortTimeCosts
                 /\ other.effortTimeCosts[i] = features.effortTimeCosts[i]
                 /\ other.taskType[i] = features.taskType[i]) =>
                    FillNumerical(other.effortTimeCosts)[i] = prepared.effortTimeCosts[i]

-----------------------------------------------------------------------------
(* DataProcessor.identify_issues on the table predict returned *)

\* Line 243.
IssueReason(row) == IF row.is_missing_effort THEN "missing" ELSE "over_limit"

\* Every row that was predicted is notified once more.
NotifyRowAlsoPredicted(row, idx) ==
    (IF row.is_missing_effort THEN <<idx>> ELSE <<>>)
        \o (IF row.is_over_limit THEN <<idx>> ELSE <<>>)
        \o (IF row.needs_prediction THEN <<idx>> ELSE <<>>)

\* Lines 229-235: what one row appends to needs_notification.
NotifyRow(row, idx) ==
    (IF row.is_missing_effort THEN <<idx>> ELSE <<>>)
        \o (IF row.is_over_limit THEN <<idx>> ELSE <<>>)

\* Lines 237-244: what one row appends to predicted_values.
PredictedValue(row, idx) ==
    IF row.needs_prediction
    THEN <<[index |-> idx,
            original |-> row.effortExpense_original,
            predicted |-> row.effortExpense_predicted,
            final |-> row.effortExpense_final,
            reason |-> IssueReason(row)]>>
    ELSE <<>>

\* Lines 221-246: the four lists after the loop has visited the first n rows.
RECURSIVE IssuesUpTo(_, _)
IssuesUpTo(rows, n) ==
    IF n = 0
    THEN [missing_effort |-> <<>>, over_limit |-> <<>>,
          predicted_values |-> <<>>, needs_notification |-> <<>>]
    ELSE LET prev == IssuesUpTo(rows, n - 1)
             row == rows[n]
         IN [missing_effort |->
                 prev.missing_effort \o (IF row.is_missing_effort THEN <<n>> ELSE <<>>),
             over_limit |->
                 prev.over_limit \o (IF row.is_over_limit THEN <<n>> ELSE <<>>),
             predicted_values |-> prev.predicted_values \o PredictedValue(row, n),
             needs_notification |-> prev.needs_notification \o NotifyRow(row, n)]

\* identify_issues on the table predict_effort_expenses returned.
IdentifyIssues ==
    /\ out.status = "ok"
    /\ last.op = "none"
    /\ last' = [op |-> "identify_issues", result |-> IssuesUpTo(out.rows, Len(out.rows))]
    /\ UNCHANGED predVars /\ UNCHANGED <<models, seq, files, clock>>
    /\ UNCHANGED concVars

NextIssues == PredictEffortExpenses \/ PredictRejected \/ IdentifyIssues

SpecIssues == InitPredict /\ [][NextIssues]_vars

\* How often x occurs in the sequence s.
Occurrences(s, x) == Cardinality({k \in DOMAIN s : s[k] = x})

\* C25: for the table predict returned, identify_issues lists exactly one
\* predicted value per row that needed a prediction and none for any other
\* row; its reason is "missing" exactly when the row's target was missing and
\* "over_limit" otherwise; no row is in both the missing and the over-limit
\* list; and needs_notification holds the index of each flagged row once.
C25_IssuesMatchFlags ==
    last.op = "identify_issues" =>
        LET issues == last.result
            indices == [k \in DOMAIN issues.predicted_values |->
                           issues.predicted_values[k].index]
        IN /\ \A i \in RowsOf(out) :
                 /\ Occurrences(indices, i) = IF out.rows[i].needs_prediction THEN 1 ELSE 0
                 /\ Occurrences(issues.needs_notification, i)
                        = IF out.rows[i].needs_prediction THEN 1 ELSE 0
                 /\ ~(Occurrences(issues.missing_effort, i) > 0
                      /\ Occurrences(issues.over_limit, i) > 0)
           /\ Range(indices) \subseteq RowsOf(out)
           /\ Range(issues.needs_notification) \subseteq RowsOf(out)
           /\ \A k \in DOMAIN issues.predicted_values :
                 LET v == issues.predicted_values[k]
                 IN /\ v.reason \in {"missing", "over_limit"}
                    /\ v.reason = "missing" <=> IsNa(df[v.index])

\* The issues of a returned table with a missing, an over-limit and a normal row.
C25_Witness ==
    /\ last.op = "identify_issues"
    /\ Len(last.result.predicted_values) = 2
    /\ Len(last.result.missing_effort) = 1
    /\ Len(last.result.over_limit) = 1
    /\ Len(out.rows) = 3

-----------------------------------------------------------------------------
(* Further properties of sessions that save, load and delete *)

\* C26: after any saves and deletes, the file every registry entry refers to
\* exists, so load_model without a path never fails for a missing file.
C26_ReferencedFilesExist ==
    /\ \A r \in models : r.file_path \in files
    /\ ~(last.op = "load" /\ last.reference = NoPath /\ last.status = "file_not_found")

\* C27: the ceiling save_model records in the registry entry is the ceiling
\* inside the artifact file the entry refers to, also when the model saved was
\* loaded into a DataProcessor constructed with another ceiling.
C27_RecordedCeilingIsArtifactCeiling ==
    (last.op = "dp_save" /\ last.status = "ok") =>
        last.effort_limit = artifacts[last.file_path].effort_limit

\* C28: DataProcessor.effort_limit and ml_model.effort_limit are equal in every
\* state, so every final value predict returns is at most the ceiling the
\* DataProcessor was constructed with.
C28_CeilingsAgree ==
    /\ dp_effort_limit = effort_limit
    /\ Returned =>
          \A i \in RowsOf(out) :
              /\ out.rows[i].effortExpense_final # NaN
              /\ out.rows[i].effortExpense_final <= dp_effort_limit

-----------------------------------------------------------------------------
(* Cross-validation of a trained model *)

\* CatBoostEffortModel.cross_validate: prepare_features (line 384), then the
\* model's own scaler is fitted again, on all rows of the table that have a
\* target (line 399); the fold regressors are locals.
CrossValidated(m, table) ==
    LET m1 == PrepareFeatures(m, table.columns)
    IN [m1 EXCEPT !.scaler = IF NumericalFeatures(m1) # <<>>
                             THEN [fitted |-> TRUE, features |-> NumericalFeatures(m1),
                                   sample |-> "X"]
                             ELSE @]

\* DataProcessor.cross_validate_model.
DpCrossValidateModel(table) ==
    /\ IF MustTrainFirst(is_model_trained)
       THEN /\ last' = [op |-> "cross_validate", status |-> "not_trained"]
            /\ UNCHANGED ml_model
       ELSE /\ ml_model' = CrossValidated(ml_model, table)
            /\ last' = [op |-> "cross_validate", status |-> "ok"]
    /\ UNCHANGED <<effort_limit, is_model_trained, df, raws, out, artifacts, saved,
                   dp_effort_limit, features, prepared>>
    /\ UNCHANGED <<models, seq, files, clock>> /\ UNCHANGED concVars

NextValidate ==
    \/ \E limit \in EffortLimits : NewProcessor(limit)
    \/ \E table \in SessionTrainTables, id \in Regressors : DpTrainModel(table, id)
    \/ \E table \in PredictTables : DpPredictEffortExpenses(table)
    \/ \E table \in SessionTrainTables : DpCrossValidateModel(table)

SpecValidate == InitRegistry /\ [][NextValidate]_vars

\* C29: cross_validate_model leaves the trained model in memory as it was
\* (regressor, fitted scaler, column lists, ceiling), so predict returns for
\* every table what it returned before the call.
C29_CrossValidationChangesNothing ==
    [][last'.op = "cross_validate" =>
          /\ ml_model' = ml_model
          /\ effort_limit' = effort_limit
          /\ is_model_trained' = is_model_trained
          /\ \A table \in PredictTables :
                PredictOutcome(is_model_trained', ml_model', effort_limit', table)
                    = PredictOutcome(is_model_trained, ml_model, effort_limit, table)
      ]_vars

-----------------------------------------------------------------------------
(* Training that may fail after the row check *)

\* How a training that has enough rows may end.
FitOutcomes == Regressors \cup {FitRaises, TuningRaises}

NextFit ==
    \/ \E limit \in EffortLimits : NewProcessor(limit)
    \/ \E table \in SessionTrainTables, id \in FitOutcomes : DpTrainModel(table, id)
    \/ \E table \in PredictTables : DpPredictEffortExpenses(table)

SpecFit == InitRegistry /\ [][NextFit]_vars

\* The numerical columns among the columns a regressor was fitted on.
NumericalOf(columns) ==
    LET numeric(c) == c \notin Range(CategoricalColumns)
    IN SelectSeq(columns, numeric)

\* C30: whenever the DataProcessor is trained, the regressor in memory is a
\* fitted one and the scaler is the one fitted with it in the same train_model
\* call: a train_model call that fails after an earlier success leaves neither
\* a new scaler beside the old regressor nor an unfitted regressor.
C30_ScalerAndRegressorOfOneCall ==
    is_model_trained =>
        /\ ml_model.model.id \in Regressors
        /\ ml_model.scaler.fitted
        /\ ml_model.scaler.features = NumericalOf(ml_model.model.features)

====
